---- MODULE Spec2Model ----
(***************************************************************************)
(* Model of XerParser (app.py): the line-oriented table extractor          *)
(* parse_tables and the enrichment engine process_for_rag with its         *)
(* helpers.                                                                *)
(*                                                                         *)
(* A text line is modelled by its marker and the tab-separated tokens that *)
(* follow the marker; str.strip() and str.split('\t') are modelled on the  *)
(* token sequence.  A record (a Python dict) is a function from its keys   *)
(* to its values.  Numeric strings are converted by a table of the strings *)
(* in the input domain (all of them integral), so floats are integers.     *)
(***************************************************************************)
EXTENDS Integers, Sequences, FiniteSets

VARIABLES
    pc,             \* position: "parse", "parsed", "lookup", "graph", "enrich", "finish", "done", "aborted"
    tables,         \* parse_tables: tables (name -> list of records)
    current_table,  \* parse_tables: current_table
    fields,         \* parse_tables: fields
    interrupted,    \* history: a table-marker line was read since the last record was stored
    resumed,        \* history: tables that had records and received another one after a marker line
    task_lookup,    \* process_for_rag: task_lookup
    relationships,  \* process_for_rag: relationships
    rel_i,          \* process_for_rag: number of TASKPRED rows consumed by the loop
    enhanced_tasks, \* process_for_rag: enhanced_tasks
    result          \* process_for_rag: the returned document

vars == <<pc, tables, current_table, fields, interrupted, resumed, task_lookup,
          relationships, rel_i, enhanced_tasks, result>>

(***************************************************************************)
(* Bounds of the model.                                                    *)
(***************************************************************************)
MaxRows == 2
MaxFields == 3
MaxValues == 2
MaxTasks == 2
MaxPreds == 2

(***************************************************************************)
(* Generic helpers.                                                        *)
(***************************************************************************)
Range(s) == {s[i] : i \in 1..Len(s)}

Last(s) == s[Len(s)]

Min(a, b) == IF a < b THEN a ELSE b

SeqsUpTo(S, n) == UNION {[1..k -> S] : k \in 0..n}

NoRecord == [k \in {} |-> ""]

\* Python dict.get(key, default)
Get(d, k, default) == IF k \in DOMAIN d THEN d[k] ELSE default

(***************************************************************************)
(* parse_tables                                                            *)
(***************************************************************************)
TrackedTables == {"TASK", "TASKPRED", "PROJWBS", "CALENDAR", "PROJECT"}

\* current_table = None, fields = None
NoTable == "<None>"
NoFields == <<>>

EmptyTables == [t \in TrackedTables |-> <<>>]

\* line.strip() on a marker line: trailing empty tokens are only tabs, which strip() removes
RECURSIVE StripTrailing(_)
StripTrailing(toks) ==
    IF toks = <<>> THEN <<>>
    ELSE IF toks[Len(toks)] = "" THEN StripTrailing(SubSeq(toks, 1, Len(toks) - 1))
    ELSE toks

\* line[3:].split('\t') of the stripped line: never the empty list
SplitTokens(toks) ==
    LET s == StripTrailing(toks) IN IF s = <<>> THEN <<"">> ELSE s

\* mutants of the padding: none at all, and padding up to the full field list
PadValuesNever(fs, values) == values

RECURSIVE PadValuesFull(_, _)
PadValuesFull(fs, values) ==
    IF Len(values) < Len(fs) THEN PadValuesFull(fs, Append(values, "")) ELSE values

\* values after "if len(values) < len(fields): values.append('')"
PadValues(fs, values) ==
    IF Len(values) < Len(fs) THEN Append(values, "") ELSE values

\* dict(zip(fields, values)): stops at the shorter list, a repeated key keeps its last value
ZipDict(fs, values) ==
    LET n == Min(Len(fs), Len(values)) IN
    [k \in {fs[i] : i \in 1..n} |->
        values[CHOOSE i \in 1..n : fs[i] = k /\ \A j \in 1..n : fs[j] = k => j <= i]]

RowData(fs, toks) == ZipDict(fs, PadValues(fs, SplitTokens(toks)))

\* number of records stored so far
TotalRows ==
    Len(tables["TASK"]) + Len(tables["TASKPRED"]) + Len(tables["PROJWBS"])
        + Len(tables["CALENDAR"]) + Len(tables["PROJECT"])

\* input domains of the line reader
MarkerNames == {"TASK", "TASKPRED", "RSRC"}
FieldNames == {"a", "b"}
ValueTokens == {"", "x"}
\* the parser never inspects a field name, so a field line's first name is fixed
FieldLines == {toks \in SeqsUpTo(FieldNames, MaxFields) : toks = <<>> \/ toks[1] = "a"}
RowLines == SeqsUpTo(ValueTokens, MaxValues)

RagUnchanged == UNCHANGED <<task_lookup, relationships, rel_i, enhanced_tasks, result>>

\* line 106: blank line after strip(), or a line with no marker (falls through every branch)
SkipLine ==
    /\ pc = "parse"
    /\ UNCHANGED <<pc, tables, current_table, fields, interrupted, resumed>>
    /\ RagUnchanged

\* mutant: the field list survives the marker of an untracked table
TableMarkerTrackedOnly(name) ==
    /\ pc = "parse"
    /\ current_table' = name
    /\ fields' = IF name \in {"TASK", "TASKPRED", "PROJWBS", "CALENDAR", "PROJECT"}
                 THEN <<>> ELSE fields
    /\ interrupted' = TRUE
    /\ UNCHANGED <<pc, tables, resumed>>
    /\ UNCHANGED <<task_lookup, relationships, rel_i, enhanced_tasks, result>>

\* lines 109-111
TableMarker(name) ==
    /\ pc = "parse"
    /\ current_table' = name
    /\ fields' = NoFields
    /\ interrupted' = TRUE
    /\ UNCHANGED <<pc, tables, resumed>>
    /\ RagUnchanged

\* lines 113-114
FieldLine(toks) ==
    /\ pc = "parse"
    /\ fields' = IF current_table \in TrackedTables THEN SplitTokens(toks) ELSE fields
    /\ UNCHANGED <<pc, tables, current_table, interrupted, resumed>>
    /\ RagUnchanged

\* line 116: the guard of the row branch
RowStored == current_table \in TrackedTables /\ fields # NoFields

\* lines 116-121
RowLine(toks) ==
    /\ pc = "parse"
    /\ TotalRows < MaxRows
    /\ tables' = IF RowStored
                 THEN [tables EXCEPT ![current_table] = Append(@, RowData(fields, toks))]
                 ELSE tables
    /\ interrupted' = IF RowStored THEN FALSE ELSE interrupted
    /\ resumed' = IF RowStored /\ interrupted /\ tables[current_table] # <<>>
                  THEN resumed \cup {current_table} ELSE resumed
    /\ UNCHANGED <<pc, current_table, fields>>
    /\ RagUnchanged

\* line 123: end of input, return tables
EndOfFile ==
    /\ pc = "parse"
    /\ pc' = "parsed"
    /\ UNCHANGED <<tables, current_table, fields, interrupted, resumed>>
    /\ RagUnchanged

InitParse ==
    /\ pc = "parse"
    /\ tables = EmptyTables
    /\ current_table = NoTable
    /\ fields = NoFields
    /\ interrupted = FALSE
    /\ resumed = {}
    /\ task_lookup = NoRecord
    /\ relationships = NoRecord
    /\ rel_i = 0
    /\ enhanced_tasks = <<>>
    /\ result = NoRecord

NextParse ==
    \/ SkipLine
    \/ \E name \in MarkerNames : TableMarker(name)
    \/ \E toks \in FieldLines : FieldLine(toks)
    \/ \E toks \in RowLines : RowLine(toks)
    \/ EndOfFile

SpecParse == InitParse /\ [][NextParse]_vars

(***************************************************************************)
(* process_for_rag and its helpers                                         *)
(*                                                                         *)
(* A string that the code only copies is an opaque value.  A string built  *)
(* by the code (an f-string, a join) is the sequence of its pieces.        *)
(***************************************************************************)
\* float(value) for the numeric strings of the input domain; any other string raises ValueError
FloatValue == [v \in {"0", "4", "-2", "8", "-8", "50", "100", "150", "-5"} |->
                  CASE v = "0" -> 0 [] v = "4" -> 4 [] v = "-2" -> 0 - 2 [] v = "8" -> 8
                    [] v = "-8" -> 0 - 8 [] v = "50" -> 50 [] v = "100" -> 100
                    [] v = "150" -> 150 [] v = "-5" -> 0 - 5]

\* lines 13-20, on a string
safe_float(value) ==
    IF value = "" THEN 0
    ELSE IF value \in DOMAIN FloatValue THEN FloatValue[value]
    ELSE 0

\* self._safe_float(d.get(key, 0)): the default 0 of get is falsy, so it gives 0.0
safe_float_field(d, key) == IF key \in DOMAIN d THEN safe_float(d[key]) ELSE 0

\* f"{percent}" for the floats the in-progress sentence formats
FloatStr(x) == CASE x = 4 -> "4.0" [] x = 8 -> "8.0" [] x = 50 -> "50.0" [] x = 150 -> "150.0"

\* code points of the date strings of the input domain, for Python's str ordering
CodePoints(str) ==
    CASE str = "" -> <<>>
      [] str = "2024-01-05" -> <<50, 48, 50, 52, 45, 48, 49, 45, 48, 53>>
      [] str = "2024-02-10" -> <<50, 48, 50, 52, 45, 48, 50, 45, 49, 48>>

\* a < b on Python strings: lexicographic by code point, a proper prefix first
RECURSIVE SeqLess(_, _)
SeqLess(a, b) ==
    IF b = <<>> THEN FALSE
    ELSE IF a = <<>> THEN TRUE
    ELSE IF a[1] # b[1] THEN a[1] < b[1]
    ELSE SeqLess(Tail(a), Tail(b))

StrLess(a, b) == SeqLess(CodePoints(a), CodePoints(b))

\* lines 24-30
describe_relationship_type(rel_type) ==
    CASE rel_type = "PR_FS" -> "Finish-to-Start (must finish before successor can start)"
      [] rel_type = "PR_SS" -> "Start-to-Start (must start before successor can start)"
      [] rel_type = "PR_FF" -> "Finish-to-Finish (must finish before successor can finish)"
      [] rel_type = "PR_SF" -> "Start-to-Finish (must start before successor can finish)"
      [] OTHER -> rel_type

\* ', '.join(names), as the sequence of its pieces
RECURSIVE JoinComma(_)
JoinComma(names) ==
    IF names = <<>> THEN <<>>
    ELSE IF Len(names) = 1 THEN names
    ELSE <<names[1], ", ">> \o JoinComma(Tail(names))

\* mutant: an unresolved related task gets an empty name
enrich_relationship_unnamed(lookup, related_task_id, rel_type, lag) ==
    LET related_task == Get(lookup, related_task_id, NoRecord) IN
    [task_id |-> related_task_id,
     task_name |-> Get(related_task, "task_name", ""),
     relationship_type |-> describe_relationship_type(rel_type),
     lag |-> lag]

\* lines 43-56 (the dates and lag description are copies of the fields kept here)
enrich_relationship(lookup, related_task_id, rel_type, lag) ==
    LET related_task == Get(lookup, related_task_id, NoRecord) IN
    [task_id |-> related_task_id,
     task_name |-> Get(related_task, "task_name", "Unknown Task"),
     relationship_type |-> describe_relationship_type(rel_type),
     lag |-> lag]

\* lines 75-87
relationship_summary(predecessors, successors) ==
    LET pred_part == IF predecessors # <<>>
                     THEN <<"This task must follow: ">>
                              \o JoinComma([i \in 1..Len(predecessors) |-> predecessors[i].task_name])
                     ELSE <<>>
        succ_part == IF successors # <<>>
                     THEN <<"This task is required before: ">>
                              \o JoinComma([i \in 1..Len(successors) |-> successors[i].task_name])
                     ELSE <<>>
    IN  IF pred_part = <<>> /\ succ_part = <<>> THEN <<"This task has no dependencies">>
        ELSE IF pred_part = <<>> THEN succ_part
        ELSE IF succ_part = <<>> THEN pred_part
        ELSE pred_part \o <<". ">> \o succ_part

NoRelationships == [predecessors |-> <<>>, successors |-> <<>>]

\* lines 40-89; task_relationships is relationships.get(task_id, {})
process_relationships(task_relationships, lookup) ==
    LET preds == [i \in 1..Len(task_relationships.predecessors) |->
                    LET e == task_relationships.predecessors[i]
                    IN enrich_relationship(lookup, e.task_id, e.type, e.lag)]
        succs == [i \in 1..Len(task_relationships.successors) |->
                    LET e == task_relationships.successors[i]
                    IN enrich_relationship(lookup, e.task_id, e.type, e.lag)]
    IN [predecessors |-> preds,
        successors |-> succs,
        relationship_summary |-> relationship_summary(preds, succs)]

\* line 220: the in-progress branch of the status description
DescribedInProgress(percent) == percent > 0

\* lines 213-224
get_status_description(task) ==
    LET status == Get(task, "status_code", "")
        percent == safe_float_field(task, "phys_complete_pct")
    IN  IF percent = 100 THEN <<"This task is completed">>
        ELSE IF DescribedInProgress(percent)
             THEN <<"This task is in progress, ", FloatStr(percent), "% complete">>
        ELSE IF status = "TK_NotStart" THEN <<"This task has not started yet">>
        ELSE <<"Status unknown">>

\* mutant: a task at 100 percent is counted as in progress too
CountedInProgressUpTo100(percent) == 0 < percent /\ percent <= 100

\* lines 246-247: the predicate of the in-progress count
CountedInProgress(percent) == 0 < percent /\ percent < 100

\* round(x, 2) of the non-negative rational num/den, in hundredths (ties to even)
RoundHundredths(num, den) ==
    LET n == num * 100
        q == n \div den
        r == n % den
    IN  IF 2 * r < den THEN q
        ELSE IF 2 * r > den THEN q + 1
        ELSE IF q % 2 = 0 THEN q ELSE q + 1

\* lines 242-255; percent_complete is kept in hundredths of a percent
calculate_schedule_metrics(tasks) ==
    LET total_tasks == Len(tasks)
        completed_tasks ==
            Cardinality({i \in 1..Len(tasks) : tasks[i].status.percent_complete = 100})
        in_progress ==
            Cardinality({i \in 1..Len(tasks) :
                            CountedInProgress(tasks[i].status.percent_complete)})
    IN [total_tasks |-> total_tasks,
        completed_tasks |-> completed_tasks,
        in_progress_tasks |-> in_progress,
        not_started_tasks |-> total_tasks - completed_tasks - in_progress,
        percent_complete |-> IF total_tasks > 0
                             THEN RoundHundredths(completed_tasks * 100, total_tasks)
                             ELSE 0]

\* mutant: only negative float is critical
IsCriticalNegativeOnly(task) == task.float.total < 0

\* line 260: the filter of the critical path
IsCritical(task) == task.float.total <= 0

\* mutant: the sort key compares the other way round
SortKeyLessReversed(x, y) == StrLess(y.dates.start.target, x.dates.start.target)

\* line 262: the order of the sort keys (x['dates']['start']['target'] or '')
SortKeyLess(x, y) == StrLess(x.dates.start.target, y.dates.start.target)

\* sorted(): stable, an element goes after every element that is not greater
RECURSIVE StableSort(_)
StableSort(seq) ==
    IF seq = <<>> THEN <<>>
    ELSE LET x == seq[Len(seq)]
             rest == StableSort(SubSeq(seq, 1, Len(seq) - 1))
             k == Cardinality({i \in 1..Len(rest) : ~SortKeyLess(x, rest[i])})
         IN SubSeq(rest, 1, k) \o <<x>> \o SubSeq(rest, k + 1, Len(rest))

\* lines 257-262
identify_critical_path(tasks) == StableSort(SelectSeq(tasks, IsCritical))

\* lines 158-195 (the fields that are plain copies of raw fields with get defaults are
\* represented by name, code and the target start date)
EnhanceTask(task) ==
    [task_id |-> task["task_id"],
     name |-> Get(task, "task_name", ""),
     status |-> [code |-> Get(task, "status_code", ""),
                 percent_complete |-> safe_float_field(task, "phys_complete_pct"),
                 status_description |-> get_status_description(task)],
     dates |-> [start |-> [target |-> Get(task, "target_start_date", "")]],
     float |-> [total |-> safe_float_field(task, "total_float_hr_cnt")],
     relationships |-> process_relationships(
                           Get(relationships, task["task_id"], NoRelationships), task_lookup)]

\* lines 130-133: a dict comprehension, a repeated task_id keeps its last row
TaskLookup(task_rows) ==
    [id \in {task_rows[i]["task_id"] : i \in 1..Len(task_rows)} |->
        task_rows[CHOOSE i \in 1..Len(task_rows) :
                     /\ task_rows[i]["task_id"] = id
                     /\ \A j \in 1..Len(task_rows) : task_rows[j]["task_id"] = id => j <= i]]

\* lines 138-141: lazy initialisation of the two lists of a task
EnsureEntry(rels, id) ==
    IF id \in DOMAIN rels THEN rels
    ELSE [k \in DOMAIN rels \cup {id} |-> IF k = id THEN NoRelationships ELSE rels[k]]

\* lines 143-147
PredecessorEntry(rel) ==
    [task_id |-> rel["pred_task_id"],
     type |-> Get(rel, "pred_type", ""),
     lag |-> safe_float_field(rel, "lag_hr_cnt")]

\* mutant: the successor entry drops the lag
SuccessorEntryNoLag(rel) ==
    [task_id |-> rel["task_id"], type |-> Get(rel, "pred_type", ""), lag |-> 0]

\* lines 149-153
SuccessorEntry(rel) ==
    [task_id |-> rel["task_id"],
     type |-> Get(rel, "pred_type", ""),
     lag |-> safe_float_field(rel, "lag_hr_cnt")]

\* mutant: a row that names one task on both sides gets no successor entry
AddRelationshipSkipSelf(rels, rel) ==
    LET r1 == EnsureEntry(EnsureEntry(rels, rel["task_id"]), rel["pred_task_id"])
        r2 == [r1 EXCEPT ![rel["task_id"]].predecessors = Append(@, PredecessorEntry(rel))]
    IN  IF rel["task_id"] = rel["pred_task_id"] THEN r2
        ELSE [r2 EXCEPT ![rel["pred_task_id"]].successors = Append(@, SuccessorEntry(rel))]

\* lines 138-153, for a row that has both keys
AddRelationship(rels, rel) ==
    LET r1 == EnsureEntry(EnsureEntry(rels, rel["task_id"]), rel["pred_task_id"])
        r2 == [r1 EXCEPT ![rel["task_id"]].predecessors = Append(@, PredecessorEntry(rel))]
    IN  [r2 EXCEPT ![rel["pred_task_id"]].successors = Append(@, SuccessorEntry(rel))]

ParseUnchanged == UNCHANGED <<tables, current_table, fields, interrupted, resumed>>

\* lines 130-133: task['task_id'] raises KeyError on a row without the key
BuildTaskLookup ==
    /\ pc = "lookup"
    /\ IF \A i \in 1..Len(tables["TASK"]) : "task_id" \in DOMAIN tables["TASK"][i]
       THEN /\ task_lookup' = TaskLookup(tables["TASK"])
            /\ pc' = "graph"
       ELSE /\ pc' = "aborted"
            /\ UNCHANGED task_lookup
    /\ UNCHANGED <<relationships, rel_i, enhanced_tasks, result>>
    /\ ParseUnchanged

\* lines 137-153, one iteration: rel['task_id'] (line 138) and rel['pred_task_id']
\* (line 140) raise KeyError on a row without the key
RelationshipRow ==
    /\ pc = "graph"
    /\ rel_i < Len(tables["TASKPRED"])
    /\ LET rel == tables["TASKPRED"][rel_i + 1] IN
       IF "task_id" \notin DOMAIN rel
       THEN /\ pc' = "aborted"
            /\ UNCHANGED <<relationships, rel_i>>
       ELSE IF "pred_task_id" \notin DOMAIN rel
       THEN /\ pc' = "aborted"
            /\ relationships' = EnsureEntry(relationships, rel["task_id"])
            /\ UNCHANGED rel_i
       ELSE /\ relationships' = AddRelationship(relationships, rel)
            /\ rel_i' = rel_i + 1
            /\ UNCHANGED pc
    /\ UNCHANGED <<task_lookup, enhanced_tasks, result>>
    /\ ParseUnchanged

\* lines 156-196
EnrichTasks ==
    /\ pc = "graph"
    /\ rel_i = Len(tables["TASKPRED"])
    /\ enhanced_tasks' = [i \in 1..Len(tables["TASK"]) |-> EnhanceTask(tables["TASK"][i])]
    /\ pc' = "finish"
    /\ UNCHANGED <<task_lookup, relationships, rel_i, result>>
    /\ ParseUnchanged

\* lines 198-211: tables always has the key PROJECT, so get's default [{}] is never
\* used and [0] raises IndexError on the empty list
Finish ==
    /\ pc = "finish"
    /\ IF tables["PROJECT"] = <<>>
       THEN /\ pc' = "aborted"
            /\ UNCHANGED result
       ELSE LET project_data == tables["PROJECT"][1] IN
            /\ result' = [project_info |->
                              [name |-> Get(project_data, "proj_short_name", "Unknown Project")],
                          tasks |-> enhanced_tasks,
                          schedule_metrics |-> calculate_schedule_metrics(enhanced_tasks),
                          critical_path_summary |-> identify_critical_path(enhanced_tasks)]
            /\ pc' = "done"
    /\ UNCHANGED <<task_lookup, relationships, rel_i, enhanced_tasks>>
    /\ ParseUnchanged

(***************************************************************************)
(* Inputs of process_for_rag: tables as parse_tables returns them.  Four   *)
(* families of inputs, each varying the fields one part of the engine      *)
(* reads; a field that is absent from a record is absent from its domain.  *)
(***************************************************************************)
Absent == "<absent>"

Present(r) == [k \in {k \in DOMAIN r : r[k] # Absent} |-> r[k]]

\* task ids by position, for inputs whose tasks are all distinct
PositionalIds == <<"A", "B", "C", "D">>

WithId(rows) == [i \in 1..Len(rows) |->
                    [k \in DOMAIN rows[i] \cup {"task_id"} |->
                        IF k = "task_id" THEN PositionalIds[i] ELSE rows[i][k]]]

OneProject == <<[proj_short_name |-> "P1"]>>

\* relationship rows with or without each key
GraphPredRows ==
    {Present([task_pred_id |-> "R1", task_id |-> r.ids[1], pred_task_id |-> r.ids[2],
              pred_type |-> r.attrs[1], lag_hr_cnt |-> r.attrs[2]]) :
        r \in [ids : {Absent, "A", "B"} \X {Absent, "A", "B"},
               attrs : {<<"PR_FS", "4">>, <<Absent, Absent>>, <<"PR_SS", "abc">>}]}

GraphInputs ==
    {[EmptyTables EXCEPT !["TASKPRED"] = preds, !["PROJECT"] = proj] :
        preds \in SeqsUpTo(GraphPredRows, MaxPreds), proj \in {<<>>, OneProject}}

\* tasks with or without id and name, related by well-formed rows
SummaryTaskRows ==
    {Present(r) : r \in [task_code : {"C1"}, task_id : {Absent, "A", "B"},
                         task_name : {Absent, "N1", "N2"}]}

SummaryPredRows ==
    [task_id : {"A", "B"}, pred_task_id : {"A", "B"}, pred_type : {"PR_FS"}, lag_hr_cnt : {"0"}]

SummaryInputs ==
    {[EmptyTables EXCEPT !["TASK"] = tasks, !["TASKPRED"] = preds, !["PROJECT"] = OneProject] :
        tasks \in SeqsUpTo(SummaryTaskRows, MaxTasks),
        preds \in SeqsUpTo(SummaryPredRows, MaxPreds)}

\* tasks with every kind of completion percentage and status code
StatusTaskRows ==
    {Present(r) : r \in [status_code : {Absent, "TK_NotStart", "TK_Active"},
                         phys_complete_pct : {Absent, "0", "50", "100", "150", "-5", "abc"}]}

StatusInputs ==
    {[EmptyTables EXCEPT !["TASK"] = WithId(tasks), !["PROJECT"] = OneProject] :
        tasks \in SeqsUpTo(StatusTaskRows, MaxTasks)}

\* tasks with every kind of total float and target start date
FloatTaskRows ==
    {Present(r) : r \in [total_float_hr_cnt : {Absent, "", "8", "-8", "abc"},
                         target_start_date : {Absent, "", "2024-01-05", "2024-02-10"}]}

FloatInputs ==
    {[EmptyTables EXCEPT !["TASK"] = WithId(tasks), !["PROJECT"] = OneProject] :
        tasks \in SeqsUpTo(FloatTaskRows, MaxTasks)}

Init ==
    /\ pc = "lookup"
    /\ tables \in GraphInputs \cup SummaryInputs \cup StatusInputs \cup FloatInputs
    /\ current_table = NoTable
    /\ fields = NoFields
    /\ interrupted = FALSE
    /\ resumed = {}
    /\ task_lookup = NoRecord
    /\ relationships = NoRecord
    /\ rel_i = 0
    /\ enhanced_tasks = <<>>
    /\ result = NoRecord

Next ==
    \/ BuildTaskLookup
    \/ RelationshipRow
    \/ EnrichTasks
    \/ Finish

Spec == Init /\ [][Next]_vars

(***************************************************************************)
(* Claims about process_for_rag (checked under Spec).                      *)
(***************************************************************************)
\* C1 as stated: the conversion of a readable input never aborts; in particular not
\* on an empty PROJECT table, a TASK row without task_id, or a TASKPRED row without
\* task_id or pred_task_id.
C1_NeverAborts == pc # "aborted"

PredSlots(rels) ==
    UNION {{<<t, i>> : i \in 1..Len(rels[t].predecessors)} : t \in DOMAIN rels}

SuccSlots(rels) ==
    UNION {{<<t, i>> : i \in 1..Len(rels[t].successors)} : t \in DOMAIN rels}

\* (predecessor, successor, type, lag) as read from a predecessor list, from a
\* successor list, and from a TASKPRED row
PredEdge(rels, slot) ==
    LET e == rels[slot[1]].predecessors[slot[2]] IN <<e.task_id, slot[1], e.type, e.lag>>

SuccEdge(rels, slot) ==
    LET e == rels[slot[1]].successors[slot[2]] IN <<slot[1], e.task_id, e.type, e.lag>>

RowEdge(j) ==
    LET rel == tables["TASKPRED"][j] IN
    <<rel["pred_task_id"], rel["task_id"], Get(rel, "pred_type", ""),
      safe_float_field(rel, "lag_hr_cnt")>>

GraphBuilt == pc \in {"finish", "done"}

\* C4: every row consumed by the graph builder has its predecessor entry on the
\* successor task and a matching successor entry on the predecessor task; the edges
\* read from predecessor lists and from successor lists are the same multiset, that of
\* the rows consumed; once the graph is built these are all the TASKPRED rows.
C4_GraphSymmetry ==
    /\ \A j \in 1..rel_i :
          LET rel == tables["TASKPRED"][j]
              s == rel["task_id"]
              p == rel["pred_task_id"]
          IN /\ \E i \in 1..Len(relationships[s].predecessors) :
                    relationships[s].predecessors[i] =
                        [task_id |-> p, type |-> RowEdge(j)[3], lag |-> RowEdge(j)[4]]
             /\ \E i \in 1..Len(relationships[p].successors) :
                    relationships[p].successors[i] =
                        [task_id |-> s, type |-> RowEdge(j)[3], lag |-> RowEdge(j)[4]]
    /\ \A edge \in {PredEdge(relationships, x) : x \in PredSlots(relationships)}
                     \cup {SuccEdge(relationships, x) : x \in SuccSlots(relationships)}
                     \cup {RowEdge(j) : j \in 1..rel_i} :
          LET n == Cardinality({j \in 1..rel_i : RowEdge(j) = edge}) IN
          /\ Cardinality({x \in PredSlots(relationships) : PredEdge(relationships, x) = edge}) = n
          /\ Cardinality({x \in SuccSlots(relationships) : SuccEdge(relationships, x) = edge}) = n
    /\ Cardinality(PredSlots(relationships)) = rel_i
    /\ Cardinality(SuccSlots(relationships)) = rel_i
    /\ GraphBuilt => rel_i = Len(tables["TASKPRED"])

\* a built graph of two rows, one of them B -> A with type PR_FS and lag 4
C4_Witness ==
    /\ GraphBuilt
    /\ rel_i = 2
    /\ "A" \in DOMAIN relationships /\ "B" \in DOMAIN relationships
    /\ \E i \in 1..Len(relationships["A"].predecessors) :
          relationships["A"].predecessors[i] = [task_id |-> "B", type |-> "PR_FS", lag |-> 4]
    /\ \E i \in 1..Len(relationships["B"].successors) :
          relationships["B"].successors[i] = [task_id |-> "A", type |-> "PR_FS", lag |-> 4]

NPred(rels, t) == IF t \in DOMAIN rels THEN Len(rels[t].predecessors) ELSE 0

NSucc(rels, t) == IF t \in DOMAIN rels THEN Len(rels[t].successors) ELSE 0

RowConsumed == rel_i' = rel_i + 1

\* the step adds one predecessor entry, to task s, and one successor entry, to task p
AddsOnePair(s, p) ==
    /\ DOMAIN relationships' = DOMAIN relationships \cup {s, p}
    /\ \A t \in DOMAIN relationships' :
          /\ NPred(relationships', t) = NPred(relationships, t) + (IF t = s THEN 1 ELSE 0)
          /\ NSucc(relationships', t) = NSucc(relationships, t) + (IF t = p THEN 1 ELSE 0)

\* C5 as stated: every row adds one predecessor entry and one successor entry, on
\* two different tasks, also when its task_id equals its pred_task_id.
C5_EntriesOnTwoTasks ==
    [][RowConsumed =>
          \E s \in DOMAIN relationships' : \E p \in DOMAIN relationships' :
              s # p /\ AddsOnePair(s, p)]_vars

\* C5 amended: every row (task_id = s, pred_task_id = p) adds exactly one predecessor
\* entry, to s, and exactly one successor entry, to p; the two entries are on two
\* different tasks when s # p and on the same task when s = p.
C5_EntriesOnRowTasks ==
    [][RowConsumed =>
          LET rel == tables["TASKPRED"][rel_i + 1] IN
          /\ AddsOnePair(rel["task_id"], rel["pred_task_id"])
          /\ Last(relationships'[rel["task_id"]].predecessors).task_id = rel["pred_task_id"]
          /\ Last(relationships'[rel["pred_task_id"]].successors).task_id = rel["task_id"]]_vars

\* a consumed row whose task_id equals its pred_task_id: both entries on task A
C5_Witness ==
    /\ rel_i >= 1
    /\ tables["TASKPRED"][1]["task_id"] = "A"
    /\ tables["TASKPRED"][1]["pred_task_id"] = "A"
    /\ relationships["A"].predecessors[1].task_id = "A"
    /\ relationships["A"].successors[1].task_id = "A"

\* C6: the three counts of the metrics are non-negative and add up to total_tasks,
\* which is the number of tasks, and percent_complete is 0 when there is no task.
C6_MetricsPartition ==
    pc = "done" =>
        LET m == result.schedule_metrics IN
        /\ m.total_tasks = Len(result.tasks)
        /\ m.completed_tasks + m.in_progress_tasks + m.not_started_tasks = m.total_tasks
        /\ m.completed_tasks >= 0
        /\ m.in_progress_tasks >= 0
        /\ m.not_started_tasks >= 0
        /\ m.total_tasks = 0 => m.percent_complete = 0

\* metrics of a task list with a completed task and a task above 100 percent
C6_Witness ==
    /\ pc = "done"
    /\ \E i \in 1..Len(result.tasks) : result.tasks[i].status.percent_complete = 100
    /\ \E i \in 1..Len(result.tasks) : result.tasks[i].status.percent_complete > 100
    /\ result.schedule_metrics.not_started_tasks = 1

Occurrences(seq, x) == Cardinality({i \in 1..Len(seq) : seq[i] = x})

DefaultedFloat(task) ==
    \/ "total_float_hr_cnt" \notin DOMAIN task
    \/ task["total_float_hr_cnt"] \in {"", "abc"}

\* C7: critical_path_summary holds exactly the enriched tasks with float.total <= 0,
\* each as often as it occurs among the tasks, in non-decreasing order of the target
\* start date string with empty dates first; a task whose total float field is
\* absent, empty or unparseable has float.total 0 and is included.
C7_CriticalPath ==
    pc = "done" =>
        LET cps == result.critical_path_summary
            tasks == result.tasks
        IN
        /\ \A i \in 1..Len(cps) : \E j \in 1..Len(tasks) : cps[i] = tasks[j]
        /\ \A j \in 1..Len(tasks) :
              Occurrences(cps, tasks[j]) =
                  IF tasks[j].float.total <= 0 THEN Occurrences(tasks, tasks[j]) ELSE 0
        /\ \A i \in 1..Len(cps) : \A j \in 1..Len(cps) :
              i < j => /\ ~StrLess(cps[j].dates.start.target, cps[i].dates.start.target)
                       /\ cps[j].dates.start.target = "" => cps[i].dates.start.target = ""
        /\ \A j \in 1..Len(tasks) :
              DefaultedFloat(tables["TASK"][j]) =>
                  /\ tasks[j].float.total = 0
                  /\ \E i \in 1..Len(cps) : cps[i] = tasks[j]

\* two critical tasks out of date order in the input, the second with a defaulted float
C7_Witness ==
    /\ pc = "done"
    /\ Len(result.tasks) = 2
    /\ result.tasks[1].dates.start.target = "2024-02-10"
    /\ result.tasks[1].float.total < 0
    /\ result.tasks[2].dates.start.target = ""
    /\ DefaultedFloat(tables["TASK"][2])
    /\ result.critical_path_summary = <<result.tasks[2], result.tasks[1]>>

\* C8 as stated: 100 percent is described as completed, a percentage strictly between
\* 0 and 100 as in progress, and any other percentage by the status code alone; a task
\* is described as in progress exactly when the metrics count it as in progress.
C8_StatusByPercentRange ==
    pc = "done" =>
        \A i \in 1..Len(result.tasks) :
            LET percent == result.tasks[i].status.percent_complete
                code == result.tasks[i].status.code
                description == result.tasks[i].status.status_description
            IN
            /\ percent = 100 => description = <<"This task is completed">>
            /\ (0 < percent /\ percent < 100) =>
                   description = <<"This task is in progress, ", FloatStr(percent), "% complete">>
            /\ (percent <= 0 \/ percent > 100) =>
                   description = IF code = "TK_NotStart"
                                 THEN <<"This task has not started yet">>
                                 ELSE <<"Status unknown">>
            /\ (description[1] = "This task is in progress, ") <=> CountedInProgress(percent)

\* the name the summary uses for a related task id, read from the TASK table
NameInTable(id) ==
    LET rows == tables["TASK"]
        hits == {j \in 1..Len(rows) : rows[j]["task_id"] = id}
    IN  IF hits = {} THEN "Unknown Task"
        ELSE Get(rows[CHOOSE j \in hits : \A k \in hits : k <= j], "task_name", "Unknown Task")

Sentence(prefix, entries) ==
    <<prefix>> \o JoinComma([k \in 1..Len(entries) |-> NameInTable(entries[k].task_id)])

\* C9: the summary of a task is the fixed no-dependencies sentence iff the task has
\* no predecessor and no successor edge in the graph; otherwise it is the predecessor
\* sentence, the successor sentence, or both joined by ". " in that order, where an
\* edge to a task id that is not in the task table contributes "Unknown Task".
C9_RelationshipSummary ==
    GraphBuilt =>
        \A i \in 1..Len(enhanced_tasks) :
            LET g == Get(relationships, enhanced_tasks[i].task_id, NoRelationships)
                r == enhanced_tasks[i].relationships
                must_follow == Sentence("This task must follow: ", g.predecessors)
                required_before == Sentence("This task is required before: ", g.successors)
            IN
            /\ (r.relationship_summary = <<"This task has no dependencies">>)
                   <=> (g.predecessors = <<>> /\ g.successors = <<>>)
            /\ (g.predecessors # <<>> /\ g.successors = <<>>)
                   => r.relationship_summary = must_follow
            /\ (g.predecessors = <<>> /\ g.successors # <<>>)
                   => r.relationship_summary = required_before
            /\ (g.predecessors # <<>> /\ g.successors # <<>>)
                   => r.relationship_summary = must_follow \o <<". ">> \o required_before
            /\ Len(r.predecessors) = Len(g.predecessors)
            /\ Len(r.successors) = Len(g.successors)
            /\ \A k \in 1..Len(r.predecessors) :
                   g.predecessors[k].task_id \notin DOMAIN task_lookup
                       => r.predecessors[k].task_name = "Unknown Task"
            /\ \A k \in 1..Len(r.successors) :
                   g.successors[k].task_id \notin DOMAIN task_lookup
                       => r.successors[k].task_name = "Unknown Task"

\* task A with a predecessor and a successor, both the task B that is not in the table
C9_Witness ==
    /\ pc = "done"
    /\ "B" \notin DOMAIN task_lookup
    /\ \E i \in 1..Len(enhanced_tasks) :
          /\ enhanced_tasks[i].task_id = "A"
          /\ enhanced_tasks[i].relationships.relationship_summary =
                 <<"This task must follow: ", "Unknown Task", ". ",
                   "This task is required before: ", "Unknown Task">>

(***************************************************************************)
(* Claims about parse_tables (checked under SpecParse).                    *)
(***************************************************************************)
\* the step stores a record in the table named current_table
Stores == tables' # tables

NewRecord == Last(tables'[current_table])

FirstFields(n) == {fields[i] : i \in 1..Min(Len(fields), n)}

\* C2 as stated: every record stored by a row line has a key set equal to the field
\* list in force when the row was read, whatever the number of values on the line.
C2_PaddingAnyRow ==
    [][Stores => DOMAIN NewRecord = Range(fields)]_vars

\* C2 amended: a stored record's keys are the first len(values)+1 declared fields (all
\* of them when the line has at most one value fewer than declared fields, or more
\* values than fields), where values is the line's value list after trimming.
C2_PaddingUpToOneMissing ==
    [][Stores => \A toks \in RowLines : RowLine(toks) =>
          LET values == SplitTokens(toks) IN
          /\ DOMAIN NewRecord = FirstFields(Len(values) + 1)
          /\ Len(values) >= Len(fields) - 1 => DOMAIN NewRecord = Range(fields)]_vars

\* a record padded by one value that carries the whole field list
C2_Witness ==
    /\ current_table = "TASK"
    /\ fields = <<"a", "b">>
    /\ tables["TASK"] # <<>>
    /\ Last(tables["TASK"]) = [k \in {"a", "b"} |-> IF k = "a" THEN "x" ELSE ""]

\* C3 as stated: one value fewer than fields gives a record whose final field is the
\* empty string; two or more fewer give a record with as many keys as values supplied.
C3_ShortRowKeysEqualValues ==
    [][Stores => \A toks \in RowLines : RowLine(toks) =>
          LET values == SplitTokens(toks) IN
          /\ Len(values) = Len(fields) - 1 => NewRecord[fields[Len(fields)]] = ""
          /\ Len(values) <= Len(fields) - 2 =>
                 Cardinality(DOMAIN NewRecord) = Len(values)]_vars

\* C3 amended: one value fewer than fields gives a record whose final field is the
\* empty string; two or more fewer give a record holding the first len(values)+1
\* fields, the last of them padded with the empty string, and no later field.
C3_ShortRowOnePaddedKey ==
    [][Stores => \A toks \in RowLines : RowLine(toks) =>
          LET values == SplitTokens(toks) IN
          /\ Len(values) = Len(fields) - 1 => NewRecord[fields[Len(fields)]] = ""
          /\ Len(values) <= Len(fields) - 2 =>
                 /\ DOMAIN NewRecord = FirstFields(Len(values) + 1)
                 /\ NewRecord[fields[Len(values) + 1]] = ""
                 /\ \A i \in 1..Len(values) :
                        (\A j \in (i + 1)..(Len(values) + 1) : fields[j] # fields[i])
                            => NewRecord[fields[i]] = values[i]]_vars

\* a row with one value under three distinctly named leading fields: two keys stored
C3_Witness ==
    /\ current_table = "TASK"
    /\ fields = <<"a", "b", "a">>
    /\ tables["TASK"] # <<>>
    /\ Last(tables["TASK"]) = [k \in {"a", "b"} |-> IF k = "a" THEN "x" ELSE ""]

\* C10: a table marker sets current_table and resets fields whether or not the table
\* is tracked; a row line appends exactly one record to the table named current_table
\* iff that table is tracked and a field line was read since the last marker, and
\* nothing else changes a table; records are only ever appended (input order); the
\* result has exactly the five tracked names as keys.
C10_ExtractorStateMachine ==
    /\ [](DOMAIN tables = TrackedTables)
    /\ [][/\ \A name \in MarkerNames : TableMarker(name) =>
                 current_table' = name /\ fields' = NoFields /\ ~Stores
          /\ current_table' # current_table => fields' = NoFields /\ ~Stores
          /\ (~Stores /\ current_table \in TrackedTables /\ fields # NoFields) =>
                 \A toks \in RowLines : ~RowLine(toks)
          /\ Stores =>
                 /\ current_table \in TrackedTables /\ fields # NoFields
                 /\ \E toks \in RowLines :
                        tables' = [tables EXCEPT ![current_table] =
                                       Append(@, RowData(fields, toks))]
                 /\ current_table' = current_table /\ fields' = fields
          /\ (current_table \notin TrackedTables /\ fields' # fields) =>
                 \A toks \in FieldLines : ~FieldLine(toks)]_vars

\* TASK received a record and, after a later table-marker line, a second one; the
\* input then ended in the section of an untracked table
C10_Witness ==
    /\ pc = "parsed"
    /\ "TASK" \in resumed
    /\ Len(tables["TASK"]) = 2
    /\ current_table = "RSRC"
    /\ fields = NoFields

====
